---- MODULE Spec2Model ----
(***************************************************************************)
(* The meta agent pipeline of run_pipeline.py: the main loop that loads    *)
(* the task store, selects the first pending task, applies the             *)
(* architectural guard, calls the supervisor and the coder, extracts and   *)
(* runs the generated code, and turns the supervisor's review reply into   *)
(* a change of the selected task that is saved to project_state.yaml.      *)
(*                                                                         *)
(* Texts (goals, model replies) are sequences of one-character strings, so *)
(* that substring tests, upper(), lower(), strip() and the fence regular   *)
(* expression are computed character by character as Python does.          *)
(* A task is a Python dict: a function from its keys to values; a key that *)
(* is absent is absent from DOMAIN.                                        *)
(***************************************************************************)
EXTENDS Integers, Sequences, FiniteSets, TLC

\* ------------------------------------------------------------------------
\* Bounds of the model
\* ------------------------------------------------------------------------

\* longest task list of an initial store
MaxTasks == 2

\* largest value the retries counter is driven to
MaxRetries == 1

\* most pieces a text given to extract_code alone is put together from
MaxChunks == 4

\* ------------------------------------------------------------------------
\* Literals of the source
\* ------------------------------------------------------------------------

RUNNER == <<"r", "u", "n", "n", "e", "r">>
FRAMEWORK == <<"f", "r", "a", "m", "e", "w", "o", "r", "k">>
ARCHITECT_REQUIRED == <<"A", "R", "C", "H", "I", "T", "E", "C", "T", "_", "R", "E", "Q", "U", "I", "R", "E", "D">>
COMPLETE == <<"C", "O", "M", "P", "L", "E", "T", "E">>
IMPROVE_PREFIX == <<"I", "M", "P", "R", "O", "V", "E", ":">>
\* the backtick character (the character itself cannot appear in a TLA+ string)
BT == "BACKTICK"

FENCE == <<BT, BT, BT>>
PYTHON_TAG == <<"p", "y", "t", "h", "o", "n">>
NEWLINE == <<"\n">>
MARK_PRINT == <<"p", "r", "i", "n", "t", "(">>
MARK_IMPORT == <<"i", "m", "p", "o", "r", "t", " ">>
MARK_OPEN == <<"o", "p", "e", "n", "(">>

\* Python's None, distinct from every text (the empty text included)
None == <<"None">>

\* ------------------------------------------------------------------------
\* Python string operations
\* ------------------------------------------------------------------------

LowerLetters == <<"a", "b", "c", "d", "e", "f", "g", "h", "i", "j", "k", "l", "m", "n", "o", "p", "q", "r", "s", "t", "u", "v", "w", "x", "y", "z">>
UpperLetters == <<"A", "B", "C", "D", "E", "F", "G", "H", "I", "J", "K", "L", "M", "N", "O", "P", "Q", "R", "S", "T", "U", "V", "W", "X", "Y", "Z">>

\* str.upper() and str.lower() on one character, as tables over the letters
UpperOf ==
    [c \in {LowerLetters[i] : i \in 1..26} |->
        UpperLetters[CHOOSE i \in 1..26 : LowerLetters[i] = c]]

LowerOf ==
    [c \in {UpperLetters[i] : i \in 1..26} |->
        LowerLetters[CHOOSE i \in 1..26 : UpperLetters[i] = c]]

UpperChar(c) == IF c \in DOMAIN UpperOf THEN UpperOf[c] ELSE c

LowerChar(c) == IF c \in DOMAIN LowerOf THEN LowerOf[c] ELSE c

upper(t) == [i \in 1..Len(t) |-> UpperChar(t[i])]

lower(t) == [i \in 1..Len(t) |-> LowerChar(t[i])]

\* p occurs in t starting at index i
IsAt(t, i, p) ==
    /\ i >= 1
    /\ i + Len(p) - 1 <= Len(t)
    /\ \A k \in 1..Len(p) : t[i + k - 1] = p[k]

\* Python's  p in t
Contains(t, p) == \E i \in 1..(Len(t) + 1) : IsAt(t, i, p)

IsSpace(c) == c \in {" ", "\n", "\t", "\r"}

\* str.strip(): drop the leading and the trailing whitespace
strip(t) ==
    IF \A i \in 1..Len(t) : IsSpace(t[i])
    THEN <<>>
    ELSE LET first == CHOOSE i \in 1..Len(t) :
                          /\ ~IsSpace(t[i])
                          /\ \A j \in 1..(i - 1) : IsSpace(t[j])
             last == CHOOSE i \in 1..Len(t) :
                          /\ ~IsSpace(t[i])
                          /\ \A j \in (i + 1)..Len(t) : IsSpace(t[j])
         IN  SubSeq(t, first, last)

\* ------------------------------------------------------------------------
\* extract_code
\* ------------------------------------------------------------------------

\* The regular expression  FENCE (?:python)? \n (.*?) FENCE  tried at index j: the
\* index where the group (.*?) starts, or 0 when the opening does not match.
\* The optional tag is taken when "python" follows the backticks; giving it
\* up can never match, since the next character is then "p", not a newline.
GroupStart(t, j) ==
    IF ~IsAt(t, j, FENCE) THEN 0
    ELSE IF IsAt(t, j + 3, PYTHON_TAG) /\ IsAt(t, j + 9, NEWLINE) THEN j + 10
    ELSE IF IsAt(t, j + 3, NEWLINE) THEN j + 4
    ELSE 0

\* The lazy group ends at the first FENCE at or after c; 0 when there is none.
GroupEnd(t, c) ==
    IF \E e \in c..Len(t) : IsAt(t, e, FENCE)
    THEN CHOOSE e \in c..Len(t) :
             /\ IsAt(t, e, FENCE)
             /\ \A d \in c..(e - 1) : ~IsAt(t, d, FENCE)
    ELSE 0

\* re.findall with re.DOTALL: the groups of the non-overlapping matches,
\* scanning from index j
RECURSIVE findall(_, _)
findall(t, j) ==
    IF j > Len(t) THEN <<>>
    ELSE LET c == GroupStart(t, j)
             e == IF c = 0 THEN 0 ELSE GroupEnd(t, c)
         IN  IF e = 0 THEN findall(t, j + 1)
             ELSE <<SubSeq(t, c, e - 1)>> \o findall(t, e + 3)

extract_code(text) ==
    LET blocks == findall(text, 1)
    IN  IF blocks # <<>> THEN strip(blocks[Len(blocks)])
        ELSE IF \/ Contains(text, MARK_PRINT)
                \/ Contains(text, MARK_IMPORT)
                \/ Contains(text, MARK_OPEN)
             THEN strip(text)
        ELSE None

\* ------------------------------------------------------------------------
\* Inputs: goals of tasks, replies of the models, results of the executor
\* ------------------------------------------------------------------------

GoalReverse == <<"r", "e", "v", "e", "r", "s", "e", " ", "a", " ", "s", "t", "r", "i", "n", "g">>
GoalFramework == <<"n", "e", "w", " ", "F", "r", "a", "m", "e", "W", "o", "r", "k">>
GoalRunner == <<"f", "i", "x", " ", "t", "e", "s", "t", " ", "R", "U", "N", "N", "E", "R">>

Goals == {GoalReverse, GoalFramework, GoalRunner}

PlanSteps == <<"1", ".", " ", "w", "r", "i", "t", "e", " ", "i", "t">>
PlanVeto == <<"n", "o", ":", " ", "A", "R", "C", "H", "I", "T", "E", "C", "T", "_", "R", "E", "Q", "U", "I", "R", "E", "D">>

Plans == {PlanSteps, PlanVeto}

CoderTwoFences == <<"a", " ", BT, BT, BT, "p", "y", "t", "h", "o", "n", "\n", "x", "=", "1", "\n", BT, BT, BT, " ", "b", " ", BT, BT, BT, "\n", "p", "r", "i", "n", "t", "(", "2", ")", "\n", BT, BT, BT>>
CoderOpen == <<" ", "f", " ", "=", " ", "o", "p", "e", "n", "(", "a", ")", "\n">>
CoderProse == <<"I", " ", "c", "a", "n", "n", "o", "t", " ", "d", "o", " ", "i", "t">>
CoderEmptyFence == <<BT, BT, BT, "\n", " ", "\n", BT, BT, BT>>
CoderPyTag == <<BT, BT, BT, "p", "y", "\n", "p", "r", "i", "n", "t", "(", "1", ")", "\n", BT, BT, BT>>

CoderOutputs == {CoderTwoFences, CoderOpen, CoderProse, CoderEmptyFence}

ReviewComplete == <<"C", "O", "M", "P", "L", "E", "T", "E">>
ReviewLower == <<"c", "o", "m", "p", "l", "e", "t", "e", ".">>
ReviewImprove == <<"I", "M", "P", "R", "O", "V", "E", ":", " ", "a", "d", "d", " ", "e", "r", "r", "o", "r", " ", "h", "a", "n", "d", "l", "i", "n", "g">>
ReviewImproveDone == <<"I", "M", "P", "R", "O", "V", "E", ":", " ", "c", "o", "m", "p", "l", "e", "t", "e", " ", "t", "h", "e", " ", "t", "e", "s", "t", "s">>
ReviewEmpty == <<>>
ReviewOther == <<"l", "o", "o", "k", "s", " ", "o", "k">>

Reviews == {ReviewComplete, ReviewLower, ReviewImprove, ReviewImproveDone, ReviewEmpty, ReviewOther}

\* what run_python returns: the child's stdout + stderr, or str(e)
ExecutionResults ==
    {<<"cba">>, <<"Traceback", "NameError">>, <<"timed out after 20 seconds">>,
     <<"No such file or directory: python3">>}

\* what datetime.now().strftime(...) returns
Timestamps == {"2026-01-01 00:00:00"}

Statuses == {"pending", "done", "skipped"}

\* ------------------------------------------------------------------------
\* State
\* ------------------------------------------------------------------------

VARIABLES
    store,              \* project_state.yaml: the list under the key "tasks"
    config_files,       \* supervisor.yaml and coder.yaml
    state,              \* the loop's  state["tasks"]  (empty before the first load)
    config,             \* the loop's supervisor_model, supervisor_system, coder_model, coder_system
    current_task,       \* index in state of the selected task; 0 is None
    pc,                 \* the place of the main loop the process is at
    supervisor_output,  \* the plan received in this cycle
    coder_output,       \* the coder's reply received in this cycle
    code,               \* what extract_code returned in this cycle
    execution_result,   \* what run_python returned in this cycle
    review,             \* the review reply received in this cycle
    clock,              \* the wall clock, in ticks
    files,              \* the writes of generated_<n>.py files: who wrote, when, under which n
    loaded,             \* history: the store as read by the last load
    calls,              \* history: calls made in this cycle, by kind
    outcome,            \* history: how the cycle ended, "running" within it
    slept,              \* history: the cycle performed time.sleep(20)
    hist,               \* history: what this cycle passed to its calls and what became of the child
    edited              \* history: what an operator wrote to the store since the last load

vars == <<store, config_files, state, config, current_task, pc, supervisor_output,
          coder_output, code, execution_result, review, clock, files, loaded, calls,
          outcome, slept, hist, edited>>

\* what the main loop never writes
env == <<config_files, clock, files>>

NoCalls == [plan |-> 0, coder |-> 0, review |-> 0, extract |-> 0, run_python |-> 0, save |-> 0]

\* no model and system prompt: nothing was passed
NoCfg == <<"None", "None">>

NoHist ==
    [child |-> "none", failed |-> "none", plan_cfg |-> NoCfg, plan_prompt |-> None,
     coder_cfg |-> NoCfg, coder_prompt |-> None, run_code |-> None,
     review_cfg |-> NoCfg, review_prompt |-> None]

\* no operator edit since the last load
NoEdit == [made |-> FALSE, store |-> <<>>, before_save |-> FALSE]

\* the variables of the loop before the first load of a process
NoConfig ==
    [supervisor_model |-> "None", supervisor_system |-> "None",
     coder_model |-> "None", coder_system |-> "None"]

\* a task of an initial store: id, goal and status (the goal of a task that
\* is not pending is never read); a pending task may carry the key retries
TaskId(i) == <<"t", i>>

InitialTasks(i) ==
    { [id |-> TaskId(i), goal |-> g, status |-> "pending"] : g \in Goals }
    \cup { [id |-> TaskId(i), goal |-> GoalReverse, status |-> s] : s \in Statuses }
    \cup { [id |-> TaskId(i), goal |-> GoalReverse, status |-> "pending", retries |-> 0] }

InitialStores ==
    UNION { { st \in [1..n -> UNION { InitialTasks(i) : i \in 1..n }] :
                  \A i \in 1..n : st[i] \in InitialTasks(i) } : n \in 0..MaxTasks }

\* supervisor.yaml and coder.yaml: model is required, system_prompt is optional
SupervisorYamls ==
    { [model |-> "llama3", system_prompt |-> "You plan and review."],
      [model |-> "mistral"] }

CoderYamls == { [model |-> "codellama", system_prompt |-> "You write Python."] }

DefaultConfigFiles ==
    [supervisor |-> [model |-> "llama3", system_prompt |-> "You plan and review."],
     coder |-> [model |-> "codellama", system_prompt |-> "You write Python."]]

\* dict.get(key, default)
Get(task, key, default) == IF key \in DOMAIN task THEN task[key] ELSE default

\* task[key] = value
Set(task, key, value) ==
    [k \in DOMAIN task \cup {key} |-> IF k = key THEN value ELSE task[k]]

\* ------------------------------------------------------------------------
\* The main loop
\* ------------------------------------------------------------------------

\* for task in tasks: if task.get("status") == "pending": current_task = task; break
RECURSIVE FirstPendingFrom(_, _)
FirstPendingFrom(tasks, i) ==
    IF i > Len(tasks) THEN 0
    ELSE IF Get(tasks[i], "status", "") = "pending" THEN i
    ELSE FirstPendingFrom(tasks, i + 1)

\* mutant: the scan does not break at the first pending task, so the last wins
SelectTask_Last(tasks) ==
    IF \E i \in DOMAIN tasks : tasks[i].status = "pending"
    THEN CHOOSE i \in DOMAIN tasks :
             /\ tasks[i].status = "pending"
             /\ \A j \in DOMAIN tasks : tasks[j].status = "pending" => j <= i
    ELSE 0

\* mutant: the scan tests  status != "done"
SelectTask_NotDone(tasks) ==
    IF \E i \in DOMAIN tasks : tasks[i].status # "done"
    THEN CHOOSE i \in DOMAIN tasks :
             /\ tasks[i].status # "done"
             /\ \A j \in DOMAIN tasks : tasks[j].status # "done" => i <= j
    ELSE 0

\* mutant: the scan passes over a pending task that has been retried when a
\* pending task that has not been follows it
SelectTask_SkipRetried(tasks) ==
    IF \E i \in DOMAIN tasks : tasks[i].status = "pending" /\ Get(tasks[i], "retries", 0) = 0
    THEN CHOOSE i \in DOMAIN tasks :
             /\ tasks[i].status = "pending" /\ Get(tasks[i], "retries", 0) = 0
             /\ \A j \in 1..(i - 1) :
                   ~(tasks[j].status = "pending" /\ Get(tasks[j], "retries", 0) = 0)
    ELSE FirstPendingFrom(tasks, 1)

SelectTask(tasks) == FirstPendingFrom(tasks, 1)

\* the values the loop reads from the two configurations
LoadConfig(f) ==
    [supervisor_model |-> f.supervisor.model,
     supervisor_system |-> Get(f.supervisor, "system_prompt", ""),
     coder_model |-> f.coder.model,
     coder_system |-> Get(f.coder, "system_prompt", "")]

\* mutant: the review call reads supervisor.yaml again
ReviewCfg_Reloaded ==
    <<config_files.supervisor.model, Get(config_files.supervisor, "system_prompt", "")>>

\* the model and the system prompt of the review call
ReviewCfg == <<config.supervisor_model, config.supervisor_system>>

\* the model and the system prompt of the plan call
PlanCfg == <<config.supervisor_model, config.supervisor_system>>

\* the model and the system prompt of the coder call
CoderCfg == <<config.coder_model, config.coder_system>>

\* mutant: the task is changed after save_state has written the file
save_state_BeforeChange(tasks, file, i) == file

\* mutant: save_state rewrites the selected task alone in the file as it is
save_state_Merge(tasks, file, i) ==
    IF i \in DOMAIN file THEN [file EXCEPT ![i] = tasks[i]] ELSE file

\* save_state(state): the file is opened with "w" and holds the dumped list,
\* whatever it held before; i is the task the loop has changed
save_state(tasks, file, i) == tasks

Init ==
    /\ store \in InitialStores
    /\ config_files = DefaultConfigFiles
    /\ state = <<>>
    /\ config = NoConfig
    /\ current_task = 0
    /\ pc = "load"
    /\ supervisor_output = None
    /\ coder_output = None
    /\ code = None
    /\ execution_result = None
    /\ review = None
    /\ clock = 0
    /\ files = <<>>
    /\ loaded = <<>>
    /\ calls = NoCalls
    /\ outcome = "init"
    /\ slept = FALSE
    /\ hist = NoHist
    /\ edited = NoEdit

\* the cycle's locals, all rebound before they are read in a cycle
ClearLocals ==
    /\ supervisor_output' = None
    /\ coder_output' = None
    /\ code' = None
    /\ execution_result' = None
    /\ review' = None

Count(kind) == [calls EXCEPT ![kind] = @ + 1]

\* mutant: the test without .lower()
IsArchitectural_CaseSensitive(user_goal) ==
    \/ Contains(user_goal, RUNNER)
    \/ Contains(user_goal, FRAMEWORK)

\* "runner" in user_goal.lower() or "framework" in user_goal.lower()
IsArchitectural(user_goal) ==
    \/ Contains(lower(user_goal), RUNNER)
    \/ Contains(lower(user_goal), FRAMEWORK)

\* mutant: the sentinel is looked for in lower case
IsVeto_Lower(plan) == Contains(plan, lower(ARCHITECT_REQUIRED))

\* "ARCHITECT_REQUIRED" in supervisor_output
IsVeto(plan) == Contains(plan, ARCHITECT_REQUIRED)

\* mutant: the test without .upper()
IsComplete_CaseSensitive(reply) == Contains(reply, COMPLETE)

\* "COMPLETE" in review.upper()
IsComplete(reply) == Contains(upper(reply), COMPLETE)

\* mutant: the executor branch is taken whatever extract_code returned
Truthy_Always(c) == TRUE

\* if code:
Truthy(c) == c # None /\ c # <<>>

\* current_task["status"] = "skipped"
MarkSkipped(tasks, i) == [tasks EXCEPT ![i] = Set(@, "status", "skipped")]

\* mutant: the else branch counts a retry only for a reply that starts IMPROVE:
ApplyReview_OnlyImprove(task, reply, result, now) ==
    IF IsComplete(reply)
    THEN Set(Set(Set(task, "status", "done"), "last_result", result), "completed_at", now)
    ELSE IF IsAt(reply, 1, IMPROVE_PREFIX)
         THEN Set(task, "retries", Get(task, "retries", 0) + 1)
    ELSE task

\* mutant: a task that has been retried once is given up (skipped) at the next
\* reply that is not COMPLETE
ApplyReview_Cutoff(task, reply, result, now) ==
    IF IsComplete(reply)
    THEN Set(Set(Set(task, "status", "done"), "last_result", result), "completed_at", now)
    ELSE IF Get(task, "retries", 0) >= 1
         THEN Set(Set(task, "retries", Get(task, "retries", 0) + 1), "status", "skipped")
    ELSE Set(task, "retries", Get(task, "retries", 0) + 1)

\* the two branches on the review reply
ApplyReview(task, reply, result, now) ==
    IF IsComplete(reply)
    THEN Set(Set(Set(task, "status", "done"), "last_result", result), "completed_at", now)
    ELSE Set(task, "retries", Get(task, "retries", 0) + 1)

\* what can become of the file and the child of run_python
ExecOutcomes == {"exit0", "nonzero", "timeout", "launch_failure", "write_failure"}

\* mutant: the except clause catches CalledProcessError only, so the timeout
\* of subprocess.run leaves run_python as an exception
run_python_TimeoutEscapes(child) ==
    CASE child = "exit0" -> [raised |-> FALSE, value |-> <<"cba">>]
      [] child = "nonzero" -> [raised |-> FALSE, value |-> <<"Traceback", "NameError">>]
      [] child = "launch_failure" ->
             [raised |-> FALSE, value |-> <<"No such file or directory: python3">>]
      [] OTHER -> [raised |-> TRUE, value |-> None]

\* run_python(code): stdout + stderr of the child, or str(e) of what
\* subprocess.run raised; open(filename, "w") is outside the try
run_python(child) ==
    CASE child = "exit0" -> [raised |-> FALSE, value |-> <<"cba">>]
      [] child = "nonzero" -> [raised |-> FALSE, value |-> <<"Traceback", "NameError">>]
      [] child = "timeout" -> [raised |-> FALSE, value |-> <<"timed out after 20 seconds">>]
      [] child = "launch_failure" ->
             [raised |-> FALSE, value |-> <<"No such file or directory: python3">>]
      [] OTHER -> [raised |-> TRUE, value |-> None]

\* loading the three YAML files and selecting the task
Load ==
    /\ pc = "load"
    /\ state' = store
    /\ config' = LoadConfig(config_files)
    /\ loaded' = store
    /\ current_task' = SelectTask(store)
    /\ ClearLocals
    /\ calls' = NoCalls
    /\ outcome' = "running"
    /\ slept' = FALSE
    /\ hist' = NoHist
    /\ edited' = NoEdit
    /\ pc' = IF SelectTask(store) = 0 THEN "idle" ELSE "guard"
    /\ UNCHANGED <<store, env>>

\* mutant: the idle branch writes the store back before it sleeps
IdleSleep_Saves ==
    /\ pc = "idle"
    /\ store' = state
    /\ calls' = Count("save")
    /\ slept' = TRUE
    /\ outcome' = "idle"
    /\ pc' = "load"
    /\ UNCHANGED <<state, config, current_task, supervisor_output, coder_output, code,
                   execution_result, review, loaded, hist, edited, env>>

\* no pending task: sleep and continue
IdleSleep ==
    /\ pc = "idle"
    /\ slept' = TRUE
    /\ outcome' = "idle"
    /\ pc' = "load"
    /\ UNCHANGED <<store, state, config, current_task, supervisor_output, coder_output,
                   code, execution_result, review, loaded, calls, hist, edited, env>>

\* the architectural guard on the goal of the selected task
ArchitecturalGuard ==
    /\ pc = "guard"
    /\ IF IsArchitectural(state[current_task].goal)
       THEN /\ state' = MarkSkipped(state, current_task)
            /\ store' = save_state(state', store, current_task)
            /\ calls' = Count("save")
            /\ outcome' = "skipped_guard"
            /\ pc' = "load"
       ELSE /\ pc' = "supervisor"
            /\ UNCHANGED <<store, state, calls, outcome>>
    /\ UNCHANGED <<config, current_task, supervisor_output, coder_output, code,
                   execution_result, review, loaded, slept, hist, edited, env>>

\* mutant: the retries counter is counted and saved before the model is called
GatewayFailure_CountsRetry(kind) ==
    /\ calls' = [Count(kind) EXCEPT !.save = @ + 1]
    /\ outcome' = "crashed"
    /\ pc' = "crashed"
    /\ hist' = [hist EXCEPT !.failed = kind]
    /\ state' = [state EXCEPT ![current_task] = Set(@, "retries", Get(@, "retries", 0) + 1)]
    /\ store' = state'
    /\ UNCHANGED <<config, current_task, supervisor_output, coder_output, code,
                   execution_result, review, loaded, slept, edited, env>>

\* run_model raises: the exception leaves the loop and ends the process
GatewayFailure(kind) ==
    /\ calls' = Count(kind)
    /\ outcome' = "crashed"
    /\ pc' = "crashed"
    /\ hist' = [hist EXCEPT !.failed = kind]
    /\ UNCHANGED <<store, state, config, current_task, supervisor_output, coder_output,
                   code, execution_result, review, loaded, slept, edited, env>>

\* the supervisor's plan and the sentinel check on it
SupervisorStep ==
    /\ pc = "supervisor"
    /\ \/ GatewayFailure("plan")
       \/ \E reply \in Plans :
            /\ supervisor_output' = reply
            /\ hist' = [hist EXCEPT !.plan_cfg = PlanCfg,
                                    !.plan_prompt = state[current_task].goal]
            /\ calls' = IF IsVeto(reply)
                        THEN [Count("plan") EXCEPT !.save = @ + 1]
                        ELSE Count("plan")
            /\ IF IsVeto(reply)
               THEN /\ state' = MarkSkipped(state, current_task)
                    /\ store' = save_state(state', store, current_task)
                    /\ outcome' = "skipped_veto"
                    /\ pc' = "load"
               ELSE /\ pc' = "coder"
                    /\ UNCHANGED <<store, state, outcome>>
            /\ UNCHANGED <<config, current_task, coder_output, code, execution_result,
                           review, loaded, slept, edited, env>>

\* mutant: the coder is given the goal, not the plan
CoderPrompt_Goal == state[current_task].goal

\* the prompt of the coder call
CoderPrompt == supervisor_output

\* the coder's reply to the plan
CoderStep ==
    /\ pc = "coder"
    /\ \/ GatewayFailure("coder")
       \/ \E reply \in CoderOutputs :
            /\ coder_output' = reply
            /\ hist' = [hist EXCEPT !.coder_cfg = CoderCfg, !.coder_prompt = CoderPrompt]
            /\ calls' = Count("coder")
            /\ pc' = "extract"
            /\ UNCHANGED <<store, state, config, current_task, supervisor_output, code,
                           execution_result, review, loaded, outcome, slept, edited, env>>

\* code = extract_code(coder_output) and the branch on it
ExtractStep ==
    /\ pc = "extract"
    /\ code' = extract_code(coder_output)
    /\ calls' = Count("extract")
    /\ IF Truthy(code')
       THEN pc' = "execute" /\ UNCHANGED outcome
       ELSE pc' = "sleep" /\ outcome' = "no_code"
    /\ UNCHANGED <<store, state, config, current_task, supervisor_output, coder_output,
                   execution_result, review, loaded, slept, hist, edited, env>>

\* execution_result = run_python(code): what subprocess.run raises comes back
\* as a string; a failure to write the file leaves the loop
ExecuteStep ==
    /\ pc = "execute"
    /\ \E child \in ExecOutcomes :
          /\ hist' = [hist EXCEPT !.child = child, !.run_code = code]
          /\ IF run_python(child).raised
             THEN /\ pc' = "crashed"
                  /\ outcome' = "crashed"
                  /\ UNCHANGED execution_result
             ELSE /\ execution_result' = run_python(child).value
                  /\ pc' = "review"
                  /\ UNCHANGED outcome
    /\ calls' = Count("run_python")
    /\ UNCHANGED <<store, state, config, current_task, supervisor_output, coder_output,
                   code, review, loaded, slept, edited, env>>

\* the feedback prompt: the goal, the coder's reply and the execution result
FeedbackPrompt == <<state[current_task].goal, coder_output, execution_result>>

\* the review call, the branch on the reply and save_state
ReviewStep ==
    /\ pc = "review"
    /\ \/ GatewayFailure("review")
       \/ \E reply \in Reviews, now \in Timestamps :
            /\ IsComplete(reply) \/ Get(state[current_task], "retries", 0) < MaxRetries
            /\ review' = reply
            /\ hist' = [hist EXCEPT !.review_cfg = ReviewCfg, !.review_prompt = FeedbackPrompt]
            /\ state' = [state EXCEPT
                           ![current_task] = ApplyReview(@, reply, execution_result, now)]
            /\ store' = save_state(state', store, current_task)
            /\ calls' = [Count("review") EXCEPT !.save = @ + 1]
            /\ outcome' = IF IsComplete(reply) THEN "done" ELSE "retry"
            /\ pc' = "sleep"
            /\ UNCHANGED <<config, current_task, supervisor_output, coder_output, code,
                           execution_result, loaded, slept, edited, env>>

\* the end of the cycle: time.sleep(20)
CycleSleep ==
    /\ pc = "sleep"
    /\ slept' = TRUE
    /\ pc' = "load"
    /\ UNCHANGED <<store, state, config, current_task, supervisor_output, coder_output,
                   code, execution_result, review, loaded, calls, outcome, hist, edited,
                   env>>

\* the process is started again after a crash: nothing in memory survives
Restart ==
    /\ pc = "crashed"
    /\ state' = <<>>
    /\ config' = NoConfig
    /\ current_task' = 0
    /\ ClearLocals
    /\ pc' = "load"
    /\ calls' = NoCalls
    /\ outcome' = "restarted"
    /\ slept' = FALSE
    /\ hist' = NoHist
    /\ UNCHANGED <<store, loaded, edited, env>>

Next ==
    \/ Load
    \/ IdleSleep
    \/ ArchitecturalGuard
    \/ SupervisorStep
    \/ CoderStep
    \/ ExtractStep
    \/ ExecuteStep
    \/ ReviewStep
    \/ CycleSleep
    \/ Restart

Spec == Init /\ [][Next]_vars

\* ------------------------------------------------------------------------
\* extract_code on its own: every text put together from a few pieces
\* ------------------------------------------------------------------------

Chunks == {FENCE, PYTHON_TAG, <<"p", "y">>, NEWLINE, <<" ">>, MARK_PRINT, <<"x">>}

RECURSIVE Flatten(_)
Flatten(cs) == IF cs = <<>> THEN <<>> ELSE Head(cs) \o Flatten(Tail(cs))

Texts ==
    CoderOutputs \cup {CoderPyTag} \cup
    UNION { { Flatten(cs) : cs \in [1..n -> Chunks] } : n \in 0..MaxChunks }

InitExtract ==
    /\ store = <<>>
    /\ config_files = DefaultConfigFiles
    /\ config = NoConfig
    /\ clock = 0
    /\ files = <<>>
    /\ hist = NoHist
    /\ edited = NoEdit
    /\ state = <<>>
    /\ current_task = 0
    /\ pc = "extract"
    /\ supervisor_output = None
    /\ coder_output \in Texts
    /\ code = None
    /\ execution_result = None
    /\ review = None
    /\ loaded = <<>>
    /\ calls = NoCalls
    /\ outcome = "running"
    /\ slept = FALSE

SpecExtract == InitExtract /\ [][ExtractStep]_vars

\* ------------------------------------------------------------------------
\* The loop with a process that can be killed at any point
\* ------------------------------------------------------------------------

\* stores of one task, and one store of two pending tasks
SmallStores ==
    { st \in InitialStores : Len(st) = 1 }
    \cup { <<[id |-> TaskId(1), goal |-> GoalReverse, status |-> "pending"],
             [id |-> TaskId(2), goal |-> GoalFramework, status |-> "pending"]>> }

InitSmall ==
    /\ store \in SmallStores
    /\ config_files = DefaultConfigFiles
    /\ state = <<>>
    /\ config = NoConfig
    /\ current_task = 0
    /\ pc = "load"
    /\ supervisor_output = None
    /\ coder_output = None
    /\ code = None
    /\ execution_result = None
    /\ review = None
    /\ clock = 0
    /\ files = <<>>
    /\ loaded = <<>>
    /\ calls = NoCalls
    /\ outcome = "init"
    /\ slept = FALSE
    /\ hist = NoHist
    /\ edited = NoEdit

\* the process is stopped from outside (a signal, a power cut) between two steps
Kill ==
    /\ pc # "crashed"
    /\ pc' = "crashed"
    /\ UNCHANGED <<store, state, config, current_task, supervisor_output, coder_output,
                   code, execution_result, review, loaded, calls, outcome, slept, hist,
                   edited, env>>

SpecKill == InitSmall /\ [][Next \/ Kill]_vars

\* ------------------------------------------------------------------------
\* The loop with an operator who edits supervisor.yaml
\* ------------------------------------------------------------------------

ConfigFiles == { [supervisor |-> sv, coder |-> cd] : sv \in SupervisorYamls, cd \in CoderYamls }

InitConfig ==
    /\ InitSmall
    /\ Len(store) = 1

\* an operator saves another supervisor.yaml, at any moment
EditConfig ==
    /\ \E f \in ConfigFiles : f # config_files /\ config_files' = f
    /\ UNCHANGED <<store, state, config, current_task, pc, supervisor_output, coder_output,
                   code, execution_result, review, clock, files, loaded, calls, outcome,
                   slept, hist, edited>>

SpecConfig == InitConfig /\ [][Next \/ EditConfig]_vars

\* ------------------------------------------------------------------------
\* The loop with an operator who edits project_state.yaml
\* ------------------------------------------------------------------------

\* what an operator may do to the store: add a pending task at the end, or
\* mark a task done by hand
OperatorEdits(file) ==
    { Append(file, [id |-> TaskId(Len(file) + 1), goal |-> GoalReverse, status |-> "pending"]) :
          x \in { n \in {Len(file)} : n < MaxTasks } }
    \cup { [file EXCEPT ![i] = Set(@, "status", s)] :
               i \in DOMAIN file, s \in {"done"} }

\* one edit between two loads
OperatorEdit ==
    /\ ~edited.made
    /\ pc # "crashed"
    /\ \E f \in OperatorEdits(store) :
          /\ f # store
          /\ store' = f
          /\ edited' = [made |-> TRUE, store |-> f,
                        before_save |-> (pc # "load" /\ calls.save = 0)]
    /\ UNCHANGED <<state, config, current_task, pc, supervisor_output, coder_output, code,
                   execution_result, review, loaded, calls, outcome, slept, hist, env>>

SpecEdit == InitSmall /\ [][Next \/ OperatorEdit]_vars

\* ------------------------------------------------------------------------
\* run_python's file names, with two loops running in the same directory
\* ------------------------------------------------------------------------

\* time.sleep(1) of save_state and time.sleep(20) of the loop, in seconds
SAVE_SLEEP == 1
CYCLE_SLEEP == 20

\* the last second of the clock
MaxClock == 24

\* most writes of generated files followed
MaxWrites == 3

Controllers == {"A", "B"}

\* f"generated_{int(time.time())}.py" at the second t
GeneratedName(t) == <<"generated_", t, ".py">>

\* the seconds at which the controller p has called run_python
CallsOf(p) == { files[i].at : i \in { j \in DOMAIN files : files[j].by = p } }

\* a second passes
Tick ==
    /\ clock < MaxClock
    /\ clock' = clock + 1
    /\ UNCHANGED <<store, config_files, state, config, current_task, pc, supervisor_output,
                   coder_output, code, execution_result, review, files, loaded, calls,
                   outcome, slept, hist, edited>>

\* the controller p calls run_python: the file is named after the second and
\* written; between two calls of one loop lie save_state and the cycle's sleep
RunPythonWrite(p) ==
    /\ Len(files) < MaxWrites
    /\ \A t \in CallsOf(p) : clock >= t + SAVE_SLEEP + CYCLE_SLEEP
    /\ files' = Append(files, [by |-> p, at |-> clock, name |-> GeneratedName(clock)])
    /\ UNCHANGED <<store, config_files, state, config, current_task, pc, supervisor_output,
                   coder_output, code, execution_result, review, clock, loaded, calls,
                   outcome, slept, hist, edited>>

NextClock == Tick \/ \E p \in Controllers : RunPythonWrite(p)

InitClock ==
    /\ InitSmall
    /\ Len(store) = 2
    /\ pc = "load"

SpecClock == InitClock /\ [][NextClock]_vars

\* ------------------------------------------------------------------------
\* Properties
\* ------------------------------------------------------------------------

Retries(task) == Get(task, "retries", 0)

\* two characters that are the same letter in either case, or the same character
SameLetter(a, b) == UpperChar(a) = UpperChar(b)

\* tok occurs in t with each letter in upper or lower case
HasTokenAnyCase(t, tok) ==
    \E i \in 1..Len(t) :
        /\ i + Len(tok) - 1 <= Len(t)
        /\ \A k \in 1..Len(tok) : SameLetter(t[i + k - 1], tok[k])

\* the keys the controller may write in the selected task
WritableKeys == {"status", "retries", "last_result", "completed_at"}

\* a cycle has loaded the store and its history is still that cycle's
InCycle == outcome \notin {"init", "restarted"}

\* the retries key of the selected task is as it was loaded
RetriesUntouched ==
    /\ ("retries" \in DOMAIN store[current_task]) = ("retries" \in DOMAIN loaded[current_task])
    /\ Retries(store[current_task]) = Retries(loaded[current_task])

\* C1: in every cycle the selected task is the first task of the loaded store
\* whose status is pending (none is selected when no task is pending); the
\* store holds the tasks in the loaded order, every task but the selected one
\* as it was loaded, and the selected one as loaded in every key other than
\* status, retries, last_result and completed_at (id and goal included).
C1_SelectFirstPendingFrame ==
    InCycle =>
        /\ current_task = 0 => \A i \in DOMAIN loaded : loaded[i].status # "pending"
        /\ current_task # 0 =>
              /\ current_task \in DOMAIN loaded
              /\ loaded[current_task].status = "pending"
              /\ \A j \in 1..(current_task - 1) : loaded[j].status # "pending"
        /\ DOMAIN store = DOMAIN loaded
        /\ \A i \in DOMAIN store :
              /\ i # current_task => store[i] = loaded[i]
              /\ DOMAIN store[i] \subseteq DOMAIN loaded[i] \cup WritableKeys
              /\ \A k \in DOMAIN loaded[i] \ WritableKeys :
                    k \in DOMAIN store[i] /\ store[i][k] = loaded[i][k]

\* C1 witness: a cycle has marked the first of two pending tasks done and saved
C1_Witness ==
    /\ outcome = "done"
    /\ Len(store) = 2
    /\ current_task = 1
    /\ loaded[2].status = "pending"
    /\ calls.save = 1

\* C2: a task whose status is done or skipped is never changed in the store by
\* any step, and no load selects it.
C2_TerminalNeverRevisited ==
    [][\A i \in DOMAIN store :
          store[i].status \in {"done", "skipped"} =>
              /\ i \in DOMAIN store'
              /\ store'[i] = store[i]
              /\ pc = "load" => current_task' # i]_vars

\* C2 witness: the controller has marked task 1 done in an earlier cycle and a
\* later cycle has selected task 2
C2_Witness ==
    /\ Len(store) = 2
    /\ store[1].status = "done"
    /\ "completed_at" \in DOMAIN store[1]
    /\ current_task = 2
    /\ pc = "guard"

\* C3: after a review reply that starts with IMPROVE: the selected task is
\* still pending and its retries counter is one more than loaded.
C3_ImproveKeepsPending ==
    (review # None /\ IsAt(review, 1, IMPROVE_PREFIX)) =>
        /\ store[current_task].status = "pending"
        /\ Retries(store[current_task]) = Retries(loaded[current_task]) + 1

\* C4: after a review reply that contains COMPLETE in any letter case the
\* selected task, loaded as pending, is done in the store, with last_result
\* the execution result of this cycle, completed_at set, retries as loaded,
\* all written by one save.
C4_CompleteMarksDone ==
    (review # None /\ HasTokenAnyCase(review, COMPLETE)) =>
        /\ loaded[current_task].status = "pending"
        /\ store[current_task].status = "done"
        /\ Get(store[current_task], "last_result", None) = execution_result
        /\ execution_result \in ExecutionResults
        /\ "completed_at" \in DOMAIN store[current_task]
        /\ RetriesUntouched
        /\ calls.save = 1
        /\ store = state

\* C4 witness: the reply "complete." has marked the task done
C4_Witness ==
    /\ review = ReviewLower
    /\ store[current_task].status = "done"
    /\ pc = "sleep"

\* C5: after a review reply that neither contains COMPLETE (in any case) nor
\* starts with IMPROVE: the process has not crashed, the selected task is
\* still pending and its retries counter is one more than loaded.
C5_AmbiguousReplyCountsRetry ==
    (/\ review # None
     /\ ~HasTokenAnyCase(review, COMPLETE)
     /\ ~IsAt(review, 1, IMPROVE_PREFIX)) =>
        /\ pc # "crashed"
        /\ store[current_task].status = "pending"
        /\ Retries(store[current_task]) = Retries(loaded[current_task]) + 1
        /\ store = state

\* C5 witness: the empty reply has been handled
C5_Witness ==
    /\ review = ReviewEmpty
    /\ pc = "sleep"
    /\ Retries(store[current_task]) = 1

\* C6: once the guard has run on a selected task whose goal contains framework
\* or runner in any letter case, the cycle is over: the task is skipped, the
\* store holds it, and the only call of the cycle is the save.
C6_GuardSkipsWithoutCalls ==
    (/\ InCycle
     /\ current_task # 0
     /\ pc # "guard"
     /\ \/ HasTokenAnyCase(loaded[current_task].goal, FRAMEWORK)
        \/ HasTokenAnyCase(loaded[current_task].goal, RUNNER)) =>
        /\ pc = "load"
        /\ store[current_task].status = "skipped"
        /\ store = state
        /\ calls = [NoCalls EXCEPT !.save = 1]

\* C6 witness: the goal "new FrameWork" has been skipped by the guard
C6_Witness ==
    /\ outcome = "skipped_guard"
    /\ loaded[current_task].goal = GoalFramework
    /\ store[current_task].status = "skipped"

\* C7: once the plan of the cycle contains ARCHITECT_REQUIRED the cycle is
\* over: the task is skipped and saved, the calls of the cycle are the plan
\* call and the save alone, and retries is as loaded.
C7_VetoSkipsWithoutCoder ==
    (supervisor_output # None /\ Contains(supervisor_output, ARCHITECT_REQUIRED)) =>
        /\ pc = "load"
        /\ store[current_task].status = "skipped"
        /\ store = state
        /\ calls = [NoCalls EXCEPT !.plan = 1, !.save = 1]
        /\ coder_output = None /\ code = None
        /\ execution_result = None /\ review = None
        /\ RetriesUntouched

\* C7 witness: a plan with the sentinel has skipped a task that had a retry
C7_Witness ==
    /\ outcome = "skipped_veto"
    /\ supervisor_output = PlanVeto
    /\ Retries(loaded[current_task]) = 1

\* C8: in a cycle that loaded no pending task nothing is called and the store
\* is not written; the process is in the idle sleep or, having slept, at the
\* start of the next cycle.
C8_IdleNoCalls ==
    (InCycle /\ \A i \in DOMAIN loaded : loaded[i].status # "pending") =>
        /\ pc \in {"idle", "load"}
        /\ calls = NoCalls
        /\ store = loaded
        /\ pc = "load" => slept /\ outcome = "idle"

\* C8 witness: an idle cycle over a store of two finished tasks has slept
C8_Witness ==
    /\ outcome = "idle"
    /\ slept
    /\ pc = "load"
    /\ Len(loaded) = 2

\* C9: in a cycle where extract_code returned None the executor and the
\* review model are not called, the store is not written, and the selected
\* task is stored pending with its retries as loaded.
C9_NoCodeNoExecution ==
    (calls.extract = 1 /\ code = None) =>
        /\ pc \in {"sleep", "load"}
        /\ calls.run_python = 0 /\ calls.review = 0 /\ calls.save = 0
        /\ execution_result = None /\ review = None
        /\ store = loaded
        /\ store[current_task].status = "pending"
        /\ RetriesUntouched

\* C9 witness: a coder reply without code has ended the cycle
C9_Witness ==
    /\ outcome = "no_code"
    /\ coder_output = CoderProse
    /\ code = None
    /\ pc = "load"

IsLetter(c) == \E i \in 1..26 : LowerLetters[i] = c \/ UpperLetters[i] = c

\* A fenced code region opens at index j with three backticks, an optional
\* language marker (letters) and a newline: the index where its contents
\* start, or 0 when no region opens at j.
RegionStart(t, j) ==
    IF ~IsAt(t, j, FENCE) THEN 0
    ELSE LET k == CHOOSE k \in (j + 3)..(Len(t) + 1) :
                      /\ k > Len(t) \/ ~IsLetter(t[k])
                      /\ \A m \in (j + 3)..(k - 1) : IsLetter(t[m])
         IN  IF k <= Len(t) /\ t[k] = "\n" THEN k + 1 ELSE 0

\* the index of the next three backticks at or after c, 0 when there are none
NextFence(t, c) ==
    IF \E e \in c..Len(t) : IsAt(t, e, FENCE)
    THEN CHOOSE e \in c..Len(t) :
             IsAt(t, e, FENCE) /\ \A d \in c..(e - 1) : ~IsAt(t, d, FENCE)
    ELSE 0

\* the contents of the fenced code regions of t from index j on, in order
RECURSIVE FencedRegions(_, _)
FencedRegions(t, j) ==
    IF j > Len(t) THEN <<>>
    ELSE LET c == RegionStart(t, j)
             e == IF c = 0 THEN 0 ELSE NextFence(t, c)
         IN  IF e = 0 THEN FencedRegions(t, j + 1)
             ELSE <<SubSeq(t, c, e - 1)>> \o FencedRegions(t, e + 3)

HasMarker(t) ==
    Contains(t, MARK_PRINT) \/ Contains(t, MARK_IMPORT) \/ Contains(t, MARK_OPEN)

\* the result the priority order gives for a text
PriorityExtract(t) ==
    LET regions == FencedRegions(t, 1)
    IN  IF regions # <<>> THEN strip(regions[Len(regions)])
        ELSE IF HasMarker(t) THEN strip(t)
        ELSE None

\* C10: for every text, extract_code returns the trimmed contents of the last
\* fenced code region when the text has one, else the whole trimmed text when
\* it contains print( , import  or open( , else None (no code found).
C10_ExtractPriority ==
    calls.extract = 1 => code = PriorityExtract(coder_output)

\* the first pending task of a store, as an index; 0 when there is none
FirstPendingOf(file) ==
    IF \E i \in DOMAIN file : file[i].status = "pending"
    THEN CHOOSE i \in DOMAIN file :
            /\ file[i].status = "pending"
            /\ \A j \in 1..(i - 1) : file[j].status # "pending"
    ELSE 0

\* a step that loads the store
IsLoadStep == pc = "load" /\ pc' \notin {"load", "crashed"}

\* for each reply of the reviewer, whether it holds COMPLETE in any case
RepliesComplete == [r \in Reviews |-> HasTokenAnyCase(r, COMPLETE)]

\* for each output of the coder, the code extract_code takes from it
ExtractedFrom == [t \in CoderOutputs |-> extract_code(t)]

\* C11: whether the child exits with 0, exits with another code, exceeds the
\* 20 seconds or cannot be launched, the executor hands a text back and the
\* cycle goes on to the review; nothing but the reviewer's reply decides
\* whether the task becomes done or gets one more retry
C11_ExecutorOutcomeReachesReview ==
    hist.child \in {"exit0", "nonzero", "timeout", "launch_failure"} =>
        /\ execution_result \in ExecutionResults
        /\ pc \in {"review", "sleep", "load", "crashed"}
        /\ pc = "crashed" => hist.failed = "review"
        /\ pc \in {"sleep", "load"} =>
              /\ calls.review = 1
              /\ review \in Reviews
              /\ hist.review_prompt[3] = execution_result
              /\ store[current_task].status =
                    IF RepliesComplete[review] THEN "done" ELSE "pending"
              /\ Retries(store[current_task]) =
                    Retries(loaded[current_task])
                    + (IF RepliesComplete[review] THEN 0 ELSE 1)

C11_Witness ==
    /\ hist.child = "timeout"
    /\ execution_result = <<"timed out after 20 seconds">>
    /\ pc = "sleep"
    /\ review = ReviewImprove
    /\ Retries(store[current_task]) = Retries(loaded[current_task]) + 1

\* what a cycle that died in a gateway call has left behind
C12_CrashedClean ==
    (pc = "crashed" /\ hist.failed # "none") =>
        /\ store = loaded
        /\ state = loaded
        /\ calls.save = 0
        /\ store[current_task].status = "pending"
        /\ Retries(store[current_task]) = Retries(loaded[current_task])
        /\ hist.failed = "plan" => calls = [NoCalls EXCEPT !.plan = 1]
        /\ hist.failed = "coder" => calls = [NoCalls EXCEPT !.plan = 1, !.coder = 1]
        /\ hist.failed = "review" =>
              /\ calls = [NoCalls EXCEPT !.plan = 1, !.coder = 1, !.extract = 1,
                                         !.run_python = 1, !.review = 1]
              /\ review = None

\* C12: a failed plan, coder or review call ends the cycle on the spot: no
\* later step runs, nothing is written, retries stay as they were; the load
\* after a restart selects the same task with the fields it had
C12_GatewayFailureAborts ==
    [][ /\ C12_CrashedClean'
        /\ (IsLoadStep /\ outcome = "restarted") =>
              /\ current_task' = FirstPendingOf(loaded)
              /\ state' = loaded
              /\ store' = loaded ]_vars

C12_Witness ==
    /\ pc = "crashed"
    /\ hist.failed = "review"
    /\ execution_result \in ExecutionResults
    /\ store = loaded

\* C15: in a cycle each step runs at most once and in this order: the coder
\* is called after the plan came and with that plan, the executor with the
\* code extracted from this cycle's coder output, the reviewer with this
\* cycle's execution result, and done or a retry is written after the review
C15_StepOrder ==
    /\ \A k \in DOMAIN calls : calls[k] <= 1
    /\ calls.coder = 1 => (calls.plan = 1 /\ supervisor_output \in Plans)
    /\ coder_output # None =>
          (hist.coder_prompt = supervisor_output /\ hist.plan_prompt = loaded[current_task].goal)
    /\ calls.extract = 1 => (calls.coder = 1 /\ coder_output # None)
    /\ calls.run_python = 1 =>
          /\ calls.extract = 1
          /\ hist.run_code = ExtractedFrom[coder_output]
          /\ hist.run_code # <<>>
    /\ calls.review = 1 => (calls.run_python = 1 /\ execution_result \in ExecutionResults)
    /\ review # None =>
          hist.review_prompt = <<loaded[current_task].goal, coder_output, execution_result>>
    /\ outcome \in {"done", "retry"} => (calls.save = 1 /\ review # None)

C15_Witness ==
    /\ outcome = "done"
    /\ \A k \in DOMAIN calls : calls[k] = 1
    /\ hist.coder_prompt = PlanSteps

C14_SleepAfterEveryCycle ==
    (pc = "load" /\ InCycle) => slept

\* C16: when the coder's output has a fenced region or one of the three
\* marker texts, the executor and the reviewer run
C16_FencedOrMarkedRuns ==
    ( /\ calls.extract = 1
      /\ pc \in {"sleep", "load"}
      /\ (FencedRegions(coder_output, 1) # <<>> \/ HasMarker(coder_output)) )
    => (calls.run_python = 1 /\ calls.review = 1)

\* the store against the memory and against what the cycle loaded
C13_Inv ==
    /\ calls.save <= 1
    /\ state # <<>> => state = store
    /\ (calls.save = 0 /\ outcome # "restarted" /\ loaded # <<>>) => store = loaded
    /\ calls.save = 1 =>
          /\ store[current_task] # loaded[current_task]
          /\ \/ store[current_task].status \in {"done", "skipped"}
             \/ Retries(store[current_task]) = Retries(loaded[current_task]) + 1

\* C13: after each decision the store holds what the memory holds, a cycle
\* writes at most once, a stop after the write leaves the task in its new
\* state, and a load takes the state last written
C13_SaveAfterDecision ==
    [][ /\ C13_Inv'
        /\ IsLoadStep => (loaded' = store /\ state' = store)
        /\ (pc = "crashed" /\ pc' = "load") => store' = store ]_vars

C13_Witness ==
    /\ pc = "crashed"
    /\ calls.save = 1
    /\ store[current_task].status = "done"
    /\ loaded[current_task].status = "pending"

\* supervisor.yaml as read from the file f
ReadSupervisor(f) ==
    <<f.supervisor.model,
      IF "system_prompt" \in DOMAIN f.supervisor THEN f.supervisor.system_prompt ELSE "">>

\* coder.yaml as read from the file f
ReadCoder(f) ==
    <<f.coder.model,
      IF "system_prompt" \in DOMAIN f.coder THEN f.coder.system_prompt ELSE "">>

\* C17: the configuration is read at the start of every cycle and stays the
\* same to its end, so the review call uses the model and the system prompt
\* the plan call of the cycle used, and an edit is taken up by the next load
C17_ConfigPerCycle ==
    [][ /\ IsLoadStep =>
              /\ <<config'.supervisor_model, config'.supervisor_system>>
                    = ReadSupervisor(config_files)
              /\ <<config'.coder_model, config'.coder_system>> = ReadCoder(config_files)
              /\ state' = store
        /\ (pc \notin {"load", "crashed"}) => config' = config
        /\ hist'.plan_cfg # NoCfg =>
              hist'.plan_cfg = <<config'.supervisor_model, config'.supervisor_system>>
        /\ hist'.coder_cfg # NoCfg =>
              hist'.coder_cfg = <<config'.coder_model, config'.coder_system>>
        /\ hist'.review_cfg # NoCfg => hist'.review_cfg = hist'.plan_cfg ]_vars

C17_Witness ==
    /\ hist.review_cfg # NoCfg
    /\ hist.review_cfg = hist.plan_cfg
    /\ hist.review_cfg # ReadSupervisor(config_files)

\* the store after an operator's edit
C20_Inv ==
    edited.made =>
        IF edited.before_save /\ calls.save = 1
        THEN /\ store = state
             /\ DOMAIN store = DOMAIN loaded
             /\ \A i \in DOMAIN store : i # current_task => store[i] = loaded[i]
        ELSE store = edited.store

\* C20: a write puts the cycle's snapshot in place of the file, so an edit
\* made since the load is lost; an edit that no write follows stays and the
\* next load takes it
C20_SnapshotOverwritesEdits ==
    [][ /\ C20_Inv'
        /\ IsLoadStep => loaded' = store
        /\ (IsLoadStep /\ edited.made /\ ~(edited.before_save /\ calls.save = 1)) =>
              loaded' = edited.store ]_vars

C20_Witness ==
    /\ edited.made
    /\ edited.before_save
    /\ calls.save = 1
    /\ Len(edited.store) > Len(store)
    /\ store = state

\* C18: no two calls of the executor write the same file name
C18_DistinctFileNames ==
    \A i, j \in DOMAIN files : i # j => files[i].name # files[j].name

====
